---- MODULE Spec2Model ----
(***************************************************************************)
(* Result aggregation engine of scripts/generate_report.py:                *)
(*   parse_filename            identifier string -> run metadata           *)
(*   get_throughput_from_json  throughput of one result file               *)
(*   process_single_directory  grouping + median row per configuration     *)
(*   extract_median_results    grouping over several run directories,      *)
(*                             failed-configuration detection, median copy *)
(*   calculate_performance_trends  change, direction and stability per     *)
(*                             configuration over several runs             *)
(*   main                      single-directory and comparison mode        *)
(* Strings are sequences of one-character strings, so that the regular     *)
(* expressions and the str methods of the source are computed character    *)
(* by character.                                                           *)
(***************************************************************************)
EXTENDS Integers, Sequences, FiniteSets, TLC

VARIABLES
    ident,          \* parse driver: the identifier handed to parse_filename
    parsed,         \* parse driver: the tuple parse_filename returned
    proc,           \* pipeline: which function runs ("psd" | "emr")
    pc,             \* pipeline: position inside that function
    seen,           \* pipeline: the files listed so far, in iteration order
    cur_dir,        \* pipeline: index of the run directory being listed
    file_groups,    \* pipeline: config_key -> list of file infos (file_groups / config_files)
    gi,             \* pipeline: index of the group the second loop is at
    data,           \* psd: the rows appended so far
    failed_configs, \* emr: the failed configurations recorded
    copied,         \* emr: the median files copied to output_dir
    median_files_copied, \* emr: the counter of copied files
    summary,        \* emr: the lines under "Configurations with median results"
    medians,        \* the median_file each group iteration chose, in order
    result,         \* what the function returned ("none" while running)
    exit_status,    \* main: "none" while running, then "exit(1)", "report",
                    \* "trends" or the "AttributeError" that ended it
    comparison_data, \* trends: the run_data list handed to calculate_performance_trends
    config_groups,  \* trends: config_key -> list of data points
    trends,         \* trends: the summaries, in the order they were stored
    passes          \* main, comparison mode: what process_single_directory
                    \* returned for each run directory, in order

vars == <<ident, parsed, proc, pc, seen, cur_dir, file_groups, gi, data,
          failed_configs, copied, median_files_copied, summary, medians, result,
          exit_status, comparison_data, config_groups, trends, passes>>

trendVars == <<comparison_data, config_groups, trends, passes>>

parseVars == <<ident, parsed>>
pipeVars == <<proc, pc, seen, cur_dir, file_groups, gi, data, failed_configs,
              copied, median_files_copied, summary, medians, result>>

-----------------------------------------------------------------------------
(* Characters and the str / re primitives parse_filename uses.             *)

Digits == {"0", "1", "2", "3", "4", "5", "6", "7", "8", "9"}

IsDigit(ch) == ch \in Digits

DigitVal(ch) ==
    CASE ch = "0" -> 0 [] ch = "1" -> 1 [] ch = "2" -> 2 [] ch = "3" -> 3
      [] ch = "4" -> 4 [] ch = "5" -> 5 [] ch = "6" -> 6 [] ch = "7" -> 7
      [] ch = "8" -> 8 [] ch = "9" -> 9

\* the value of a non-empty string of decimal digits
RECURSIVE DigitsToInt(_)
DigitsToInt(s) ==
    IF Len(s) = 0 THEN 0
    ELSE 10 * DigitsToInt(SubSeq(s, 1, Len(s) - 1)) + DigitVal(s[Len(s)])

AllDigits(s) == Len(s) > 0 /\ \A i \in 1..Len(s) : IsDigit(s[i])

MatchAt(s, i, pat) ==
    /\ i >= 1
    /\ i + Len(pat) - 1 <= Len(s)
    /\ SubSeq(s, i, i + Len(pat) - 1) = pat

\* pat in s
Contains(s, pat) == \E i \in 1..Len(s) : MatchAt(s, i, pat)

\* s.replace(old, new): every non-overlapping occurrence, left to right
RECURSIVE ReplaceFrom(_, _, _, _)
ReplaceFrom(s, i, old, new) ==
    IF i > Len(s) THEN <<>>
    ELSE IF MatchAt(s, i, old) THEN new \o ReplaceFrom(s, i + Len(old), old, new)
    ELSE <<s[i]>> \o ReplaceFrom(s, i + 1, old, new)

Replace(s, old, new) == ReplaceFrom(s, 1, old, new)

\* s.split(sep) for a one-character separator: empty pieces are kept
RECURSIVE SplitFrom(_, _, _, _)
SplitFrom(s, i, sep, cur) ==
    IF i > Len(s) THEN <<cur>>
    ELSE IF s[i] = sep THEN <<cur>> \o SplitFrom(s, i + 1, sep, <<>>)
    ELSE SplitFrom(s, i + 1, sep, Append(cur, s[i]))

Split(s, sep) == SplitFrom(s, 1, sep, <<>>)

\* sep.join(parts)
RECURSIVE Join(_, _)
Join(parts, sep) ==
    IF Len(parts) = 0 THEN <<>>
    ELSE IF Len(parts) = 1 THEN parts[1]
    ELSE parts[1] \o sep \o Join(Tail(parts), sep)

\* s.strip(chars)
RECURSIVE LStrip(_, _)
LStrip(s, chars) ==
    IF Len(s) > 0 /\ s[1] \in chars THEN LStrip(Tail(s), chars) ELSE s

RECURSIVE RStrip(_, _)
RStrip(s, chars) ==
    IF Len(s) > 0 /\ s[Len(s)] \in chars
    THEN RStrip(SubSeq(s, 1, Len(s) - 1), chars) ELSE s

Strip(s, chars) == RStrip(LStrip(s, chars), chars)

\* int(text): surrounding whitespace is dropped, then an optional sign and
\* decimal digits are accepted
SignedDigits(t) ==
    \/ AllDigits(t)
    \/ Len(t) > 1 /\ t[1] \in {"+", "-"} /\ AllDigits(Tail(t))

IntParses(s) == SignedDigits(Strip(s, {" "}))

SignedValue(t) ==
    IF AllDigits(t) THEN DigitsToInt(t)
    ELSE IF t[1] = "-" THEN 0 - DigitsToInt(Tail(t))
    ELSE DigitsToInt(Tail(t))

IntOf(s) == SignedValue(Strip(s, {" "}))

LowerCh(ch) ==
    CASE ch = "A" -> "a" [] ch = "B" -> "b" [] ch = "C" -> "c" [] ch = "D" -> "d"
      [] ch = "E" -> "e" [] ch = "F" -> "f" [] ch = "G" -> "g" [] ch = "H" -> "h"
      [] ch = "I" -> "i" [] ch = "J" -> "j" [] ch = "K" -> "k" [] ch = "L" -> "l"
      [] ch = "M" -> "m" [] ch = "N" -> "n" [] ch = "O" -> "o" [] ch = "P" -> "p"
      [] ch = "Q" -> "q" [] ch = "R" -> "r" [] ch = "S" -> "s" [] ch = "T" -> "t"
      [] ch = "U" -> "u" [] ch = "V" -> "v" [] ch = "W" -> "w" [] ch = "X" -> "x"
      [] ch = "Y" -> "y" [] ch = "Z" -> "z" [] OTHER -> ch

\* s.lower()
Lower(s) == [i \in 1..Len(s) |-> LowerCh(s[i])]

\* os.path.basename(path): what follows the last "/"
RECURSIVE Basename(_)
Basename(s) ==
    IF \E i \in 1..Len(s) : s[i] = "/"
    THEN Basename(Tail(s))
    ELSE s

\* the last index of the run of digits that starts at i
RECURSIVE DigitRunEnd(_, _)
DigitRunEnd(s, i) ==
    IF i < Len(s) /\ IsDigit(s[i + 1]) THEN DigitRunEnd(s, i + 1) ELSE i

\* the least element of a non-empty set of indices
MinOf(hits) == CHOOSE x \in hits : \A y \in hits : x <= y

\* re.search(r'(\d+)<letter>', s): <<start, end of the digits>> of the leftmost
\* match, <<0, 0>> when there is none.  \d+ is greedy and the letter is no
\* digit, so a match takes the whole run of digits from its start.
LeftmostRun(s, hits) ==
    IF hits = {} THEN <<0, 0>> ELSE <<MinOf(hits), DigitRunEnd(s, MinOf(hits))>>

\* variant of DigitsThen: the last match instead of the first
DigitsThenLast(s, letter) ==
    LeftmostRun(s, {i \in 1..Len(s) :
                       /\ IsDigit(s[i])
                       /\ DigitRunEnd(s, i) < Len(s)
                       /\ s[DigitRunEnd(s, i) + 1] = letter
                       /\ \A k \in (i + 1)..Len(s) :
                             ~(/\ IsDigit(s[k])
                               /\ (k = 1 \/ ~IsDigit(s[k - 1]))
                               /\ DigitRunEnd(s, k) < Len(s)
                               /\ s[DigitRunEnd(s, k) + 1] = letter)
                       /\ (i = 1 \/ ~IsDigit(s[i - 1]))})

DigitsThen(s, letter) ==
    LeftmostRun(s, {i \in 1..Len(s) :
                       /\ IsDigit(s[i])
                       /\ DigitRunEnd(s, i) < Len(s)
                       /\ s[DigitRunEnd(s, i) + 1] = letter})

S_light == <<"l", "i", "g", "h", "t">>
S_heavy == <<"h", "e", "a", "v", "y">>
S_cluster == <<"c", "l", "u", "s", "t", "e", "r">>
S_run == <<"r", "u", "n">>
S_json == <<".", "j", "s", "o", "n">>
S_unknown == <<"u", "n", "k", "n", "o", "w", "n">>
S_unknown_impl == <<"u", "n", "k", "n", "o", "w", "n", "_", "i", "m", "p", "l">>

\* re.search(r'(light|heavy)', s): the word of the leftmost match, <<>> for none
WordAt(s, hits) ==
    IF hits = {} THEN <<>>
    ELSE IF MatchAt(s, MinOf(hits), S_light) THEN S_light ELSE S_heavy

TypeSearch(s) ==
    WordAt(s, {i \in 1..Len(s) : MatchAt(s, i, S_light) \/ MatchAt(s, i, S_heavy)})

\* re.sub(r'(_|-|:)cluster($|_)', r'\2', s)
RECURSIVE SubClusterFrom(_, _)
SubClusterFrom(s, i) ==
    IF i > Len(s) THEN <<>>
    ELSE IF s[i] \in {"_", "-", ":"} /\ MatchAt(s, i + 1, S_cluster)
         THEN IF i + 7 = Len(s) THEN <<>>
              ELSE IF s[i + 8] = "_" THEN <<"_">> \o SubClusterFrom(s, i + 9)
              ELSE <<s[i]>> \o SubClusterFrom(s, i + 1)
         ELSE <<s[i]>> \o SubClusterFrom(s, i + 1)

SubCluster(s) == SubClusterFrom(s, 1)

\* re.sub(r'\d+$', '', s)
StripTrailingDigits(s) == RStrip(s, Digits)

\* [p for p in s.split('_') if p]
NonEmptyParts(s) == SelectSeq(Split(s, "_"), LAMBDA p : Len(p) > 0)

-----------------------------------------------------------------------------
(* parse_filename                                                          *)

\* the first part that ends in <letter> and whose head int() accepts
RECURSIVE FallbackScan(_, _)
FallbackScan(parts, letter) ==
    IF Len(parts) = 0 THEN 0
    ELSE IF /\ Len(parts[1]) > 0
            /\ parts[1][Len(parts[1])] = letter
            /\ IntParses(SubSeq(parts[1], 1, Len(parts[1]) - 1))
         THEN IntOf(SubSeq(parts[1], 1, Len(parts[1]) - 1))
         ELSE FallbackScan(Tail(parts), letter)

\* int(match.group(1)) of the match m, 0 without a match
MatchValue(base, m) ==
    IF m[1] = 0 THEN 0 ELSE DigitsToInt(SubSeq(base, m[1], m[2]))

\* if concurrency == 0: the fallback over parts
OrFallback(primary, parts, letter) ==
    IF primary = 0 THEN FallbackScan(parts, letter) ELSE primary

\* concurrency (letter c) and duration (letter s)
ParseNumber(base, parts, letter) ==
    OrFallback(MatchValue(base, DigitsThen(base, letter)), parts, letter)

TypeOr(word, parts) ==
    IF word = S_light THEN "light"
    ELSE IF word = S_heavy THEN "heavy"
    ELSE IF \E i \in 1..Len(parts) : parts[i] = S_light THEN "light"
    ELSE IF \E i \in 1..Len(parts) : parts[i] = S_heavy THEN "heavy"
    ELSE "unknown"

ParseType(base, parts) == TypeOr(TypeSearch(base), parts)

\* if "cluster" in base.lower() or ":cluster" in base or "-cluster" in base
ParseMode(base) ==
    IF \/ Contains(Lower(base), S_cluster)
       \/ Contains(base, <<":">> \o S_cluster)
       \/ Contains(base, <<"-">> \o S_cluster)
    THEN "cluster" ELSE "standalone"

\* temp_base.replace(match.group(0), '') for the match m of (\d+)<letter> in base
DropMatch(base, temp, m) ==
    IF m[1] = 0 THEN temp ELSE Replace(temp, SubSeq(base, m[1], m[2] + 1), <<>>)

DropNumber(base, temp, letter) == DropMatch(base, temp, DigitsThen(base, letter))

\* temp_base.replace(type_match.group(0), '')
DropWord(temp, word) == IF word = <<>> THEN temp ELSE Replace(temp, word, <<>>)

\* the implementation name: what is left of base once the known patterns are removed
ParseImplementation(base) ==
    Join(NonEmptyParts(
           Strip(Replace(
                   StripTrailingDigits(
                     Replace(
                       SubCluster(
                         DropWord(DropNumber(base, DropNumber(base, base, "c"), "s"),
                                  TypeSearch(base))),
                       S_run, <<>>)),
                   <<"_", "_">>, <<"_">>),
                 {"_", ":"})),
         <<"-">>)

\* variant of StripClusterSuffix: only the hyphen form is removed
StripHyphenClusterOnly(implementation, mode) ==
    IF mode = "cluster"
    THEN Replace(implementation, <<"-">> \o S_cluster, <<>>)
    ELSE implementation

\* client_name.replace("-cluster", "").replace(":cluster", "") when mode is cluster
StripClusterSuffix(implementation, mode) ==
    IF mode = "cluster"
    THEN Replace(Replace(implementation, <<"-">> \o S_cluster, <<>>),
                 <<":">> \o S_cluster, <<>>)
    ELSE implementation

\* variant of NameOrDefault: an empty name is returned as it is
NameAsDerived(implementation) == implementation

\* if not implementation: both names are "unknown_impl";
\* if not client_name: client_name = implementation
NameOrDefault(implementation) ==
    IF implementation = <<>> THEN S_unknown_impl ELSE implementation

ClientOrDefault(implementation, client_name) ==
    IF implementation = <<>> THEN S_unknown_impl
    ELSE IF client_name = <<>> THEN implementation
    ELSE client_name

\* base = os.path.basename(filename).replace('.json', '')
BaseOf(filename) == Replace(Basename(filename), S_json, <<>>)

ParseFields(base, parts, implementation, mode) ==
    [implementation |-> NameOrDefault(implementation),
     mode |-> mode,
     req_type |-> ParseType(base, parts),
     concurrency |-> ParseNumber(base, parts, "c"),
     duration |-> ParseNumber(base, parts, "s"),
     client_name |-> ClientOrDefault(implementation,
                                     StripClusterSuffix(implementation, mode))]

ParseBase(base) ==
    ParseFields(base, Split(base, "_"), ParseImplementation(base), ParseMode(base))

parse_filename(filename) == ParseBase(BaseOf(filename))

-----------------------------------------------------------------------------
(* Result files.  A file is [dir, name, doc]: the run directory it lies in, *)
(* its name and its JSON content.  Of the content the model keeps what the *)
(* two functions read: throughput.average, requests.average, rateLimitHits *)
(* and whether the other sections (latency, resources) are mappings.       *)
(* A value is [kind, val]: kind "num" carries val; "nosection" (the        *)
(* section key is missing), "noavg" (no 'average' key), "null", "str" (a   *)
(* non-numeric string) and "notdict" (the section is no mapping) carry 0.  *)

Num(v) == [kind |-> "num", val |-> v]
Missing == [kind |-> "nosection", val |-> 0]
NotDict == [kind |-> "notdict", val |-> 0]

Doc(thr, req, rlh) ==
    [readable |-> TRUE, thr |-> thr, req |-> req, rlh |-> rlh, sections_ok |-> TRUE]

\* get_throughput_from_json: [raised, value]; raised is the AttributeError
\* that the except clause of the function does not list
get_throughput_from_json(doc) ==
    IF ~doc.readable THEN [raised |-> FALSE, value |-> 0]
    ELSE IF doc.thr.kind = "notdict" \/ doc.req.kind = "notdict"
    THEN [raised |-> TRUE, value |-> 0]
    ELSE LET secondary == IF doc.req.kind \in {"nosection", "noavg"} THEN Num(0) ELSE doc.req
             throughput == IF doc.thr.kind \in {"nosection", "noavg"} THEN secondary ELSE doc.thr
         IN [raised |-> FALSE,
             value |-> IF throughput.kind = "num" THEN throughput.val ELSE 0]

\* safe_float(value, default=0.0) on the value a .get(..., 0) chain gives
safe_float(v) == IF v.kind = "num" THEN v.val ELSE 0

\* rate_limit_hits = result_json.get("rateLimitHits", 0), and 0 when the
\* file cannot be read
EmrRateLimitHits(doc) ==
    IF ~doc.readable \/ doc.rlh.kind = "nosection" THEN Num(0) ELSE doc.rlh

\* file_info["rate_limit_hits"] == 0
RateLimitIsZero(rlh) == rlh.kind = "num" /\ rlh.val = 0

\* variant of ConfigKey: the mode does not tell keys apart
ConfigKeyWithoutMode(p) ==
    <<p.client_name, "standalone", p.req_type, p.concurrency, p.duration>>

\* (client_name, mode, req_type, concurrency, file_duration)
ConfigKey(p) == <<p.client_name, p.mode, p.req_type, p.concurrency, p.duration>>

\* variant of Incomplete: and in place of or
IncompleteBoth(p) == p.concurrency = 0 /\ p.req_type = "unknown"

\* if concurrency == 0 or req_type == "unknown": continue
Incomplete(p) == p.concurrency = 0 \/ p.req_type = "unknown"

\* filename.endswith(".json")
EndsWithJson(name) == MatchAt(name, Len(name) - Len(S_json) + 1, S_json)

\* variant of InsertSorted: a run goes before the runs of equal throughput
RECURSIVE InsertBeforeEqual(_, _)
InsertBeforeEqual(sorted, x) ==
    IF Len(sorted) = 0 THEN <<x>>
    ELSE IF sorted[Len(sorted)].throughput < x.throughput THEN Append(sorted, x)
    ELSE Append(InsertBeforeEqual(SubSeq(sorted, 1, Len(sorted) - 1), x), sorted[Len(sorted)])

\* files.sort(key=lambda x: x["throughput"]): stable, ascending
RECURSIVE InsertSorted(_, _)
InsertSorted(sorted, x) ==
    IF Len(sorted) = 0 THEN <<x>>
    ELSE IF sorted[Len(sorted)].throughput <= x.throughput THEN Append(sorted, x)
    ELSE Append(InsertSorted(SubSeq(sorted, 1, Len(sorted) - 1), x), sorted[Len(sorted)])

RECURSIVE SortByThroughput(_)
SortByThroughput(files) ==
    IF Len(files) = 0 THEN <<>>
    ELSE InsertSorted(SortByThroughput(SubSeq(files, 1, Len(files) - 1)), files[Len(files)])

\* variant of MedianIndex: the lower median, (len(files) - 1) // 2
MedianIndexLower(n) == ((n - 1) \div 2) + 1

\* len(files) // 2, as a 1-based index
MedianIndex(n) == (n \div 2) + 1

\* files.sort(...); median_file = files[len(files) // 2]
MedianFile(files) == SortByThroughput(files)[MedianIndex(Len(files))]

\* if config_key not in groups: groups[config_key] = [];  groups[config_key].append(info)
\* a dict keeps its keys in insertion order: a sequence of [key, files]
AddToGroup(groups, key, info) ==
    IF \E i \in 1..Len(groups) : groups[i].key = key
    THEN [i \in 1..Len(groups) |->
            IF groups[i].key = key
            THEN [groups[i] EXCEPT !.files = Append(@, info)]
            ELSE groups[i]]
    ELSE Append(groups, [key |-> key, files |-> <<info>>])

\* the names of the result files the pipeline lists
N_a == <<"a", "_">> \o S_light \o <<"_", "5", "c", "_">> \o S_run
N_a1 == N_a \o <<"1">> \o S_json                     \* a_light_5c_run1.json
N_a2 == N_a \o <<"2">> \o S_json                     \* a_light_5c_run2.json
N_a3 == N_a \o <<"3">> \o S_json                     \* a_light_5c_run3.json
N_b == <<"a", "-">> \o S_cluster \o <<"_">> \o S_light
           \o <<"_", "5", "c">> \o S_json           \* a-cluster_light_5c.json
N_inc == <<"a", "_">> \o S_light \o S_json           \* a_light.json: no concurrency
N_txt == <<"n", "o", "t", "e", "s", ".", "t", "x", "t">>   \* notes.txt

FileNames == {N_a1, N_a2, N_a3, N_b, N_inc, N_txt}

\* parse_filename(filename) of the files the pipeline lists
ParsedNames == [n \in FileNames |-> parse_filename(n)]

\* the dict appended to file_groups[config_key] (process_single_directory)
PsdFileInfo(f) ==
    [filepath |-> <<f.dir, f.name>>,
     throughput |-> get_throughput_from_json(f.doc).value,
     filename |-> f.name,
     implementation |-> ParsedNames[f.name].implementation]

\* the dict appended to config_files[config_key] (extract_median_results)
EmrFileInfo(f) ==
    [filepath |-> <<f.dir, f.name>>,
     throughput |-> get_throughput_from_json(f.doc).value,
     rate_limit_hits |-> EmrRateLimitHits(f.doc),
     filename |-> f.name,
     run_timestamp |-> f.dir,
     implementation |-> ParsedNames[f.name].implementation]

\* variant of EmrThroughputOk: zero throughput is dropped as well
EmrThroughputPositive(throughput) == throughput > 0

\* process_single_directory keeps a file when its throughput is > 0
PsdThroughputOk(throughput) == throughput > 0

\* extract_median_results keeps a file unless its throughput is < 0
EmrThroughputOk(throughput) == throughput >= 0

PsdKeeps(f) ==
    /\ EndsWithJson(f.name)
    /\ ~Incomplete(ParsedNames[f.name])
    /\ ~get_throughput_from_json(f.doc).raised
    /\ PsdThroughputOk(get_throughput_from_json(f.doc).value)

EmrKeeps(f) ==
    /\ EndsWithJson(f.name)
    /\ ~Incomplete(ParsedNames[f.name])
    /\ ~get_throughput_from_json(f.doc).raised
    /\ EmrThroughputOk(get_throughput_from_json(f.doc).value)

\* variant of PsdGroupFile: an error raised for one file ends the grouping
\* and loses the groups built so far
PsdGroupFileUnguarded(groups, f) ==
    IF PsdKeeps(f)
    THEN AddToGroup(groups, ConfigKey(ParsedNames[f.name]), PsdFileInfo(f))
    ELSE IF get_throughput_from_json(f.doc).raised THEN <<>>
    ELSE groups

\* one iteration of the grouping loop of process_single_directory
PsdGroupFile(groups, f) ==
    IF PsdKeeps(f)
    THEN AddToGroup(groups, ConfigKey(ParsedNames[f.name]), PsdFileInfo(f))
    ELSE groups

\* one iteration of the grouping loop of extract_median_results
EmrGroupFile(groups, f) ==
    IF EmrKeeps(f)
    THEN AddToGroup(groups, ConfigKey(ParsedNames[f.name]), EmrFileInfo(f))
    ELSE groups

\* the content of the file at filepath
DocAt(files, filepath) ==
    (CHOOSE f \in {files[i] : i \in 1..Len(files)} :
        <<f.dir, f.name>> = filepath).doc

\* all(file_info["rate_limit_hits"] == 0 for file_info in files)
AllZeroRateLimits(files) ==
    \A i \in 1..Len(files) : RateLimitIsZero(files[i].rate_limit_hits)

\* variant of EmrSkips: without the all_zero_rate_limits test
EmrSkipsShortOnly(files) == Len(files) < 2

\* the median loop passes over a group: if all_zero_rate_limits: continue;
\* if len(files) < 2: continue
EmrSkips(files) == AllZeroRateLimits(files) \/ Len(files) < 2

\* the row process_single_directory appends for a group; source is the
\* median file it was read from
PsdRow(key, median_file, doc) ==
    [Client |-> key[1], Mode |-> key[2], RequestType |-> key[3],
     Concurrency |-> key[4], Duration |-> key[5],
     ReqPerSec |-> safe_float(doc.req),
     RateLimitHits |-> safe_float(doc.rlh),
     source |-> median_file.filepath]

\* building the row raises when a section read with .get(...).get(...) is no mapping
PsdRowRaises(doc) == ~doc.readable \/ doc.req.kind = "notdict" \/ ~doc.sections_ok

\* the groups with their lists sorted up to index n (the loops sort in place)
SortGroup(groups, n) ==
    [i \in 1..Len(groups) |->
        IF i = n THEN [groups[i] EXCEPT !.files = SortByThroughput(@)] ELSE groups[i]]

\* the lines under "Configurations with median results"
SummaryLines(groups) ==
    LET listed == SelectSeq(groups, LAMBDA g : Len(g.files) >= 2)
    IN [i \in 1..Len(listed) |->
          [config |-> listed[i].key,
           throughput |-> MedianFile(listed[i].files).throughput]]

\* variant of FailedConfigs: len(files) > 1 in place of len(files) > 0
FailedConfigsOfSeveral(groups) ==
    LET failed == SelectSeq(groups,
                    LAMBDA g : AllZeroRateLimits(g.files) /\ Len(g.files) > 1)
    IN [i \in 1..Len(failed) |->
          [config |-> failed[i].key,
           files |-> failed[i].files,
           reason |-> "All runs have zero rateLimitHits - rate limiting not working"]]

\* the failed_configs list of extract_median_results
FailedConfigs(groups) ==
    LET failed == SelectSeq(groups,
                    LAMBDA g : AllZeroRateLimits(g.files) /\ Len(g.files) > 0)
    IN [i \in 1..Len(failed) |->
          [config |-> failed[i].key,
           files |-> failed[i].files,
           reason |-> "All runs have zero rateLimitHits - rate limiting not working"]]

-----------------------------------------------------------------------------
(* The inputs the model draws from.                                        *)

MaxFiles == 3       \* result files listed in one run of either function
MaxDirs == 2        \* run directories find_comparison_directories returns
MaxPieces == 3      \* pieces an identifier of the parse driver is built from

D_1 == Doc(Num(1), Num(1), Num(0))        \* throughput 1, no rate limit hit
D_2 == Doc(Num(2), Num(5), Num(4))        \* throughput 2 (requests.average 5)
D_3 == Doc(Missing, Num(3), Num(0))       \* throughput 3 from requests.average
D_0 == Doc(Num(0), Num(0), Num(0))        \* a run that did nothing
D_neg == Doc(Missing, Num(-1), Num(2))    \* a negative average
D_bad == Doc(Num(2), NotDict, Num(1))     \* "requests" is no mapping
\* as D_2, and "latency" is no mapping
D_lat == [D_2 EXCEPT !.sections_ok = FALSE]

Docs == {D_1, D_2, D_3, D_0, D_neg, D_bad}

\* the files a directory listing can show: every content under the first
\* name, fewer under the others
Contents(name) ==
    IF name = N_a1 THEN Docs
    ELSE IF name = N_a2 THEN {D_1, D_2, D_0}
    ELSE IF name = N_a3 THEN {D_1}
    ELSE IF name = N_b THEN {D_lat}
    ELSE IF name = N_inc THEN {D_2}
    ELSE {D_1}

Listable(dir) ==
    UNION {{[dir |-> dir, name |-> n, doc |-> d] : d \in Contents(n)} : n \in FileNames}

SeqToSet(q) == {q[i] : i \in 1..Len(q)}

InDir(files, dir) == SelectSeq(files, LAMBDA f : f.dir = dir)

-----------------------------------------------------------------------------
(* process_single_directory                                                *)

\* one file of os.listdir(results_dir), and its iteration of the grouping loop
PsdListFile ==
    /\ proc = "psd" /\ pc = "list"
    /\ Len(seen) < MaxFiles
    /\ \E f \in Listable(1) :
          /\ \A g \in SeqToSet(seen) : g.name # f.name
          /\ seen' = Append(seen, f)
          /\ file_groups' = PsdGroupFile(file_groups, f)
    /\ UNCHANGED <<trendVars, exit_status, ident, parsed, proc, pc, cur_dir, gi, data, failed_configs,
                   copied, median_files_copied, summary, medians, result>>

\* the listing is complete: if not all_files: return None, None
PsdEndList ==
    /\ proc = "psd" /\ pc = "list"
    /\ IF \A f \in SeqToSet(seen) : ~EndsWithJson(f.name)
       THEN pc' = "done" /\ result' = "None" /\ gi' = gi
       ELSE pc' = "select" /\ result' = result /\ gi' = 1
    /\ UNCHANGED <<trendVars, exit_status, ident, parsed, proc, seen, cur_dir, file_groups, data,
                   failed_configs, copied, median_files_copied, summary, medians>>

\* one iteration of "for config_key, files in file_groups.items()"
PsdSelect ==
    /\ proc = "psd" /\ pc = "select"
    /\ gi <= Len(file_groups)
    /\ LET key == file_groups[gi].key
           median_file == MedianFile(file_groups[gi].files)
           doc == DocAt(seen, median_file.filepath)
       IN /\ file_groups' = SortGroup(file_groups, gi)
          /\ medians' = Append(medians, [config |-> key, file |-> median_file])
          /\ data' = IF PsdRowRaises(doc) THEN data
                     ELSE Append(data, PsdRow(key, median_file, doc))
    /\ gi' = gi + 1
    /\ UNCHANGED <<trendVars, exit_status, ident, parsed, proc, pc, seen, cur_dir, failed_configs,
                   copied, median_files_copied, summary, result>>

\* if not data: return None, None;  return pd.DataFrame(data), file_groups
PsdReturn ==
    /\ proc = "psd" /\ pc = "select"
    /\ gi > Len(file_groups)
    /\ pc' = "done"
    /\ result' = IF Len(data) = 0 THEN "None" ELSE "DataFrame"
    /\ UNCHANGED <<trendVars, exit_status, ident, parsed, proc, seen, cur_dir, file_groups, gi, data,
                   failed_configs, copied, median_files_copied, summary, medians>>

\* what the call returns once pc is "done": process_single_directory
\* returns None, None or pd.DataFrame(data), file_groups, and
\* extract_median_results returns None or output_dir
ReturnValue ==
    IF proc = "psd"
    THEN IF result = "None"
         THEN [df |-> <<>>, file_groups |-> <<>>]
         ELSE [df |-> data, file_groups |-> file_groups]
    ELSE [output_dir |-> result]

\* main, single-directory mode, after the directory was found and the report
\* directory made: df, file_groups = process_single_directory(results_dir);
\* if df is None or df.empty: exit(1); else the report is generated
MainSingleDirectory ==
    /\ proc = "psd" /\ pc = "done"
    /\ exit_status = "none"
    /\ exit_status' = IF result = "None" THEN "exit(1)" ELSE "report"
    /\ UNCHANGED <<trendVars, ident, parsed, proc, pc, seen, cur_dir,
                   file_groups, gi, data, failed_configs, copied,
                   median_files_copied, summary, medians, result>>

\* df = process_single_directory(comp_dir["path"]): the name is bound to the
\* pair the function returns, (None, None) or (DataFrame, file_groups)
BoundToDf(returned) == [kind |-> "tuple", first |-> returned]

\* "df is not None and not df.empty": a tuple is not None and has no
\* attribute 'empty'
PassTest(df) ==
    IF df.kind = "None" THEN "skip"
    ELSE IF df.kind = "tuple" THEN "AttributeError"
    ELSE "append"

\* the loop "for comp_dir in comparison_dirs" from directory i on
RECURSIVE CompareLoop(_, _, _)
CompareLoop(returned, i, kept) ==
    IF i > Len(returned) THEN [raised |-> FALSE, comparison_data |-> kept]
    ELSE IF PassTest(BoundToDf(returned[i])) = "AttributeError"
    THEN [raised |-> TRUE, comparison_data |-> kept]
    ELSE IF PassTest(BoundToDf(returned[i])) = "append"
    THEN CompareLoop(returned, i + 1,
                     Append(kept, [timestamp |-> i, datetime |-> i, df |-> <<>>]))
    ELSE CompareLoop(returned, i + 1, kept)

\* the exit of comparison mode after the loop: fewer than 2 entries is
\* exit(1), otherwise calculate_performance_trends is called
AfterCompareLoop(looped) ==
    IF looped.raised THEN "AttributeError"
    ELSE IF Len(looped.comparison_data) < 2 THEN "exit(1)" ELSE "trends"

\* main with --compare-runs and --include-trends: the n run directories
\* find_comparison_directories returns, and what process_single_directory
\* returns for each
MainCompareRuns ==
    /\ proc = "compare" /\ pc = "start"
    /\ \E n \in 0..MaxDirs :
          \E returned \in [1..n -> {"None", "DataFrame"}] :
              /\ passes' = returned
              /\ IF n < 2
                 THEN comparison_data' = <<>> /\ exit_status' = "exit(1)"
                 ELSE /\ comparison_data' =
                            CompareLoop(returned, 1, <<>>).comparison_data
                      /\ exit_status' =
                            AfterCompareLoop(CompareLoop(returned, 1, <<>>))
    /\ pc' = "done"
    /\ UNCHANGED <<config_groups, trends, ident, parsed, proc, seen, cur_dir,
                   file_groups, gi, data, failed_configs, copied,
                   median_files_copied, summary, medians, result>>

-----------------------------------------------------------------------------
(* extract_median_results                                                  *)

\* run_dirs = find_comparison_directories(...); if len(run_dirs) < 2: return None
\* cur_dir is <<the directory being listed, len(run_dirs)>>
EmrStart ==
    /\ proc = "emr" /\ pc = "start"
    /\ \E n \in 0..MaxDirs :
          IF n < 2
          THEN pc' = "done" /\ result' = "None" /\ cur_dir' = cur_dir
          ELSE pc' = "list" /\ result' = result /\ cur_dir' = <<1, n>>
    /\ UNCHANGED <<trendVars, exit_status, ident, parsed, proc, seen, file_groups, gi, data,
                   failed_configs, copied, median_files_copied, summary, medians>>

\* one file of os.listdir(run_path), and its iteration of the grouping loop
EmrListFile ==
    /\ proc = "emr" /\ pc = "list"
    /\ Len(seen) + (cur_dir[2] - cur_dir[1]) < MaxFiles
    /\ \E f \in Listable(cur_dir[1]) :
          /\ \A g \in SeqToSet(InDir(seen, cur_dir[1])) : g.name # f.name
          /\ seen' = Append(seen, f)
          /\ file_groups' = EmrGroupFile(file_groups, f)
    /\ UNCHANGED <<trendVars, exit_status, ident, parsed, proc, pc, cur_dir, gi, data, failed_configs,
                   copied, median_files_copied, summary, medians, result>>

\* the next run directory; a run directory holds at least one JSON file
EmrNextDir ==
    /\ proc = "emr" /\ pc = "list"
    /\ cur_dir[1] < cur_dir[2]
    /\ \E f \in SeqToSet(InDir(seen, cur_dir[1])) : EndsWithJson(f.name)
    /\ cur_dir' = <<cur_dir[1] + 1, cur_dir[2]>>
    /\ UNCHANGED <<trendVars, exit_status, ident, parsed, proc, pc, seen, file_groups, gi, data,
                   failed_configs, copied, median_files_copied, summary,
                   medians, result>>

\* after the last directory: the failed_configs loop
EmrDetectFailed ==
    /\ proc = "emr" /\ pc = "list"
    /\ cur_dir[1] = cur_dir[2]
    /\ \E f \in SeqToSet(InDir(seen, cur_dir[1])) : EndsWithJson(f.name)
    /\ failed_configs' = FailedConfigs(file_groups)
    /\ pc' = "extract"
    /\ gi' = 1
    /\ UNCHANGED <<trendVars, exit_status, ident, parsed, proc, seen, cur_dir, file_groups, data,
                   copied, median_files_copied, summary, medians, result>>

\* one iteration of the median loop; copy_ok is whether shutil.copy2 succeeds
EmrExtract ==
    /\ proc = "emr" /\ pc = "extract"
    /\ gi <= Len(file_groups)
    /\ LET files == file_groups[gi].files
       IN IF EmrSkips(files)
          THEN UNCHANGED <<file_groups, copied, median_files_copied, medians>>
          ELSE /\ file_groups' = SortGroup(file_groups, gi)
               /\ medians' = Append(medians, [config |-> file_groups[gi].key,
                                              file |-> MedianFile(files)])
               /\ \E copy_ok \in BOOLEAN :
                     IF copy_ok
                     THEN /\ copied' = Append(copied,
                                  [config |-> file_groups[gi].key,
                                   file |-> MedianFile(files)])
                          /\ median_files_copied' = median_files_copied + 1
                     ELSE UNCHANGED <<copied, median_files_copied>>
    /\ gi' = gi + 1
    /\ UNCHANGED <<trendVars, exit_status, ident, parsed, proc, pc, seen, cur_dir, data, failed_configs,
                   summary, result>>

\* the summary file, and return output_dir
EmrSummary ==
    /\ proc = "emr" /\ pc = "extract"
    /\ gi > Len(file_groups)
    /\ summary' = SummaryLines(file_groups)
    /\ file_groups' = [i \in 1..Len(file_groups) |->
                          IF Len(file_groups[i].files) >= 2
                          THEN [file_groups[i] EXCEPT !.files = SortByThroughput(@)]
                          ELSE file_groups[i]]
    /\ pc' = "done"
    /\ result' = "output_dir"
    /\ UNCHANGED <<trendVars, exit_status, ident, parsed, proc, seen, cur_dir, gi, data, failed_configs,
                   copied, median_files_copied, medians>>

-----------------------------------------------------------------------------
(* The pipeline specification: one call of either function.                *)

NotParsed ==
    [implementation |-> <<>>, mode |-> "none", req_type |-> "none",
     concurrency |-> 0, duration |-> 0, client_name |-> <<>>]

PipeIdle ==
    /\ seen = <<>> /\ cur_dir = <<1, 1>> /\ file_groups = <<>> /\ gi = 0
    /\ data = <<>> /\ failed_configs = <<>> /\ copied = <<>>
    /\ median_files_copied = 0 /\ summary = <<>> /\ medians = <<>>
    /\ result = "none"
    /\ exit_status = "none"

TrendIdle ==
    /\ comparison_data = <<>> /\ config_groups = <<>> /\ trends = <<>>
    /\ passes = <<>>

Init ==
    /\ ident = <<>> /\ parsed = NotParsed
    /\ \/ proc = "psd" /\ pc = "list"
       \/ proc = "emr" /\ pc = "start"
       \/ proc = "compare" /\ pc = "start"
    /\ PipeIdle
    /\ TrendIdle

Next ==
    \/ PsdListFile \/ PsdEndList \/ PsdSelect \/ PsdReturn
    \/ MainSingleDirectory \/ MainCompareRuns
    \/ EmrStart \/ EmrListFile \/ EmrNextDir \/ EmrDetectFailed
    \/ EmrExtract \/ EmrSummary

Spec == Init /\ [][Next]_vars

-----------------------------------------------------------------------------
(* The parse driver: parse_filename applied to one identifier.             *)

P_a == <<"a">>
P_us == <<"_">>
P_hy == <<"-">>
P_co == <<":">>
P_2 == <<"2">>
P_c == <<"c">>
P_5c == <<"5", "c">>
P_3s == <<"3", "s">>
P_sp == <<" ">>

Pieces == {P_a, P_us, P_hy, P_co, P_2, P_c, P_5c, P_3s, P_sp, S_cluster, S_light}

\* the concatenations of at most n pieces
RECURSIVE PieceStrings(_)
PieceStrings(n) ==
    IF n = 0 THEN {<<>>}
    ELSE LET shorter == PieceStrings(n - 1)
         IN shorter \cup {s \o q : s \in shorter, q \in Pieces}

Corpus == {
    N_a1, N_b, N_inc,
    \* valkey-glide_cluster_light_50c_30s_run2.json
    <<"v","a","l","k","e","y","-","g","l","i","d","e","_","c","l","u","s","t","e","r","_","l","i","g","h","t","_","5","0","c","_","3","0","s","_","r","u","n","2",".","j","s","o","n">>,
    \* results/ioredis_heavy_100c_30s.json
    <<"r","e","s","u","l","t","s","/","i","o","r","e","d","i","s","_","h","e","a","v","y","_","1","0","0","c","_","3","0","s",".","j","s","o","n">>,
    \* x0c_7c
    <<"x","0","c","_","7","c">>,
    \* v2client_light_50c
    <<"v","2","c","l","i","e","n","t","_","l","i","g","h","t","_","5","0","c">>,
    \* 1.jsonc_5c
    <<"1",".","j","s","o","n","c","_","5","c">>,
    \* a-cluster-b_light_5c
    <<"a","-","c","l","u","s","t","e","r","-","b","_","l","i","g","h","t","_","5","c">>,
    \* a:cluster-b_heavy_5c
    <<"a",":","c","l","u","s","t","e","r","-","b","_","h","e","a","v","y","_","5","c">>,
    \* cluster--clustercluster_light_5c
    <<"c","l","u","s","t","e","r","-","-","c","l","u","s","t","e","r","c","l","u","s","t","e","r","_","l","i","g","h","t","_","5","c">>,
    \* mycluster_light_5c.json
    <<"m","y","c","l","u","s","t","e","r","_","l","i","g","h","t","_","5","c",".","j","s","o","n">>,
    \* a_Cluster_light_5c
    <<"a","_","C","l","u","s","t","e","r","_","l","i","g","h","t","_","5","c">>,
    \* highlight_5c
    <<"h","i","g","h","l","i","g","h","t","_","5","c">>,
    \* run_12
    <<"r","u","n","_","1","2">>
}

Identifiers == PieceStrings(MaxPieces) \cup Corpus

ParseInit ==
    /\ ident \in Identifiers
    /\ parsed = NotParsed
    /\ proc = "parse" /\ pc = "call"
    /\ PipeIdle
    /\ TrendIdle

\* implementation, mode, req_type, concurrency, file_duration, client_name = parse_filename(filename)
ParseCall ==
    /\ proc = "parse" /\ pc = "call"
    /\ parsed' = parse_filename(ident)
    /\ pc' = "done"
    /\ UNCHANGED <<trendVars, exit_status, ident, proc, seen, cur_dir, file_groups, gi, data, failed_configs,
                   copied, median_files_copied, summary, medians, result>>

ParseNext == ParseCall

SpecParse == ParseInit /\ [][ParseNext]_vars

-----------------------------------------------------------------------------
(* calculate_performance_trends.  Throughputs are integers; a quotient the *)
(* code computes in floating point is kept as the fraction num/den and     *)
(* compared by cross-multiplication.                                       *)

\* a ReqPerSec that pd.notna rejects
NaN == [kind |-> "nan", val |-> 0]

\* a row of run_data["df"]
Row(key, req_per_sec) ==
    [Client |-> key[1], Mode |-> key[2], RequestType |-> key[3],
     Concurrency |-> key[4], Duration |-> key[5], ReqPerSec |-> req_per_sec]

RunData(timestamp, rows) ==
    [timestamp |-> timestamp, datetime |-> timestamp, df |-> rows]

\* config_key = f"{row['Client']}_{row['Mode']}_{row['RequestType']}_{row['Concurrency']}"
\* the string determines the four values, which stand for it here
TrendKey(row) == <<row.Client, row.Mode, row.RequestType, row.Concurrency>>

\* the dict appended to config_groups[config_key]; duration is the Duration
\* of the row the point came from, which the code does not store
DataPoint(run_data, row) ==
    [timestamp |-> run_data.timestamp, datetime |-> run_data.datetime,
     throughput |-> row.ReqPerSec, duration |-> row.Duration]

\* if config_key not in config_groups: config_groups[config_key] = []; append
AddPoint(groups, key, point) ==
    IF \E i \in 1..Len(groups) : groups[i].key = key
    THEN [i \in 1..Len(groups) |->
            IF groups[i].key = key
            THEN [groups[i] EXCEPT !.points = Append(@, point)]
            ELSE groups[i]]
    ELSE Append(groups, [key |-> key, points |-> <<point>>])

\* for _, row in run_data["df"].iterrows(): ...
RECURSIVE GroupRows(_, _, _)
GroupRows(groups, run_data, rows) ==
    IF Len(rows) = 0 THEN groups
    ELSE GroupRows(AddPoint(groups, TrendKey(Head(rows)),
                            DataPoint(run_data, Head(rows))),
                   run_data, Tail(rows))

\* data_points.sort(key=lambda x: x["datetime"]): stable, ascending
RECURSIVE InsertByDatetime(_, _)
InsertByDatetime(sorted, x) ==
    IF Len(sorted) = 0 THEN <<x>>
    ELSE IF sorted[Len(sorted)].datetime <= x.datetime THEN Append(sorted, x)
    ELSE Append(InsertByDatetime(SubSeq(sorted, 1, Len(sorted) - 1), x),
                sorted[Len(sorted)])

\* variant of SortByDatetime: the points stay in the order they were supplied
InSuppliedOrder(points) == points

RECURSIVE SortByDatetime(_)
SortByDatetime(points) ==
    IF Len(points) = 0 THEN <<>>
    ELSE InsertByDatetime(SortByDatetime(SubSeq(points, 1, Len(points) - 1)),
                          points[Len(points)])

\* throughputs = [p["throughput"] for p in data_points if pd.notna(p["throughput"])]
RECURSIVE Throughputs(_)
Throughputs(points) ==
    IF Len(points) = 0 THEN <<>>
    ELSE IF Head(points).throughput.kind = "nan" THEN Throughputs(Tail(points))
    ELSE <<Head(points).throughput.val>> \o Throughputs(Tail(points))

RECURSIVE Sum(_)
Sum(ys) == IF Len(ys) = 0 THEN 0 ELSE Head(ys) + Sum(Tail(ys))

RECURSIVE SumSq(_)
SumSq(ys) == IF Len(ys) = 0 THEN 0 ELSE Head(ys) * Head(ys) + SumSq(Tail(ys))

\* sum of x * y over x_values = list(range(len(throughputs)))
RECURSIVE WeightedSum(_)
WeightedSum(ys) ==
    IF Len(ys) = 0 THEN 0
    ELSE (Len(ys) - 1) * ys[Len(ys)] + WeightedSum(SubSeq(ys, 1, Len(ys) - 1))

\* sum(range(n))
IndexSum(n) == (n * (n - 1)) \div 2

Sign(v) == IF v > 0 THEN 1 ELSE IF v < 0 THEN 0 - 1 ELSE 0

\* the least-squares slope has the sign of n*sum(x*y) - sum(x)*sum(y)
SlopeNumerator(ys) == Len(ys) * WeightedSum(ys) - IndexSum(Len(ys)) * Sum(ys)

\* the sign of np.polyfit(x_values, throughputs, 1)[0].  polyfit solves the
\* scaled least-squares system by a singular value decomposition in floating
\* point: where the exact slope is 0 it returns the rounding residue, whose
\* sign (residue) depends on the data and the linear algebra build
PolyfitSlopeSign(ys, residue) ==
    IF SlopeNumerator(ys) # 0 THEN Sign(SlopeNumerator(ys)) ELSE residue

\* variant of ThroughputChange: the change from last to first
ThroughputChangeBackwards(first, last) ==
    IF first > 0 THEN [num |-> (first - last) * 100, den |-> first]
    ELSE [num |-> 0, den |-> 1]

\* throughput_change: ((last - first) / first) * 100 if first > 0 else 0
ThroughputChange(first, last) ==
    IF first > 0 THEN [num |-> (last - first) * 100, den |-> first]
    ELSE [num |-> 0, den |-> 1]

\* "improving" if trend_slope > 0 else "declining" if trend_slope < 0 else "stable"
DirectionOfSlope(slope_sign) ==
    IF slope_sign > 0 THEN "improving"
    ELSE IF slope_sign < 0 THEN "declining" ELSE "stable"

\* variant of DirectionOfChange: the boundaries +5 and -5 count as a change
DirectionOfChangeInclusive(change) ==
    IF change.num >= 5 * change.den THEN "improving"
    ELSE IF change.num <= (0 - 5) * change.den THEN "declining" ELSE "stable"

\* "improving" if throughput_change > 5 else "declining" if throughput_change < -5 else "stable"
DirectionOfChange(change) ==
    IF change.num > 5 * change.den THEN "improving"
    ELSE IF change.num < (0 - 5) * change.den THEN "declining" ELSE "stable"

\* variant of CvBelow: cv <= limit
CvAtMost(ys, limit) ==
    IF Sum(ys) > 0
    THEN 10000 * (Len(ys) * SumSq(ys) - Sum(ys) * Sum(ys))
            <= limit * limit * Sum(ys) * Sum(ys)
    ELSE 0 <= limit

\* cv < limit, for cv = np.std(throughputs) / np.mean(throughputs) * 100 if
\* np.mean(throughputs) > 0 else 0.  With n = len, S = sum: std^2 is
\* (n*sumsq - S^2) / n^2 and mean is S / n, so that for a mean > 0
\* cv < limit is 10000 * (n*sumsq - S^2) < limit^2 * S^2
CvBelow(ys, limit) ==
    IF Sum(ys) > 0
    THEN 10000 * (Len(ys) * SumSq(ys) - Sum(ys) * Sum(ys))
            < limit * limit * Sum(ys) * Sum(ys)
    ELSE 0 < limit

\* "stable" if cv < 10 else "variable" if cv < 25 else "unstable"
Stability(ys) ==
    IF CvBelow(ys, 10) THEN "stable"
    ELSE IF CvBelow(ys, 25) THEN "variable" ELSE "unstable"

RECURSIVE MaxOfSeq(_)
MaxOfSeq(ys) ==
    IF Len(ys) = 1 THEN ys[1]
    ELSE IF Head(ys) >= MaxOfSeq(Tail(ys)) THEN Head(ys) ELSE MaxOfSeq(Tail(ys))

RECURSIVE MinOfSeq(_)
MinOfSeq(ys) ==
    IF Len(ys) = 1 THEN ys[1]
    ELSE IF Head(ys) <= MinOfSeq(Tail(ys)) THEN Head(ys) ELSE MinOfSeq(Tail(ys))

\* trends[config_key] = {...} for the sorted data_points and their throughputs
TrendSummary(key, data_points, ys, residue) ==
    [config |-> key,
     throughput_change_percent |-> ThroughputChange(ys[1], ys[Len(ys)]),
     trend_direction |->
         IF Len(ys) >= 3 THEN DirectionOfSlope(PolyfitSlopeSign(ys, residue))
         ELSE DirectionOfChange(ThroughputChange(ys[1], ys[Len(ys)])),
     stability |-> IF Len(ys) >= 3 THEN Stability(ys) ELSE "insufficient_data",
     data_points |-> Len(data_points),
     first_run |-> data_points[1].timestamp,
     last_run |-> data_points[Len(data_points)].timestamp,
     avg_throughput |-> [num |-> Sum(ys), den |-> Len(ys)],
     best_throughput |-> MaxOfSeq(ys),
     worst_throughput |-> MinOfSeq(ys)]

\* variant of StoreTrend: len(throughputs) >= 1 in place of >= 2
StoreTrendFromOne(stored, key, data_points, ys, residue) ==
    IF Len(ys) >= 1
    THEN Append(stored, TrendSummary(key, data_points, ys, residue))
    ELSE stored

\* if len(throughputs) >= 2: trends[config_key] = {...}
StoreTrend(stored, key, data_points, ys, residue) ==
    IF Len(ys) >= 2
    THEN Append(stored, TrendSummary(key, data_points, ys, residue))
    ELSE stored

\* if len(comparison_data) < 2: return trends
TrendStart ==
    /\ proc = "trend" /\ pc = "start"
    /\ IF Len(comparison_data) < 2
       THEN pc' = "done" /\ result' = "trends" /\ gi' = gi
       ELSE pc' = "group" /\ result' = result /\ gi' = 1
    /\ UNCHANGED <<trendVars, exit_status, ident, parsed, proc, seen, cur_dir,
                   file_groups, data, failed_configs, copied,
                   median_files_copied, summary, medians>>

\* one iteration of "for run_data in comparison_data"
TrendGroupRun ==
    /\ proc = "trend" /\ pc = "group"
    /\ gi <= Len(comparison_data)
    /\ config_groups' = GroupRows(config_groups, comparison_data[gi],
                                  comparison_data[gi].df)
    /\ gi' = gi + 1
    /\ UNCHANGED <<comparison_data, trends, passes, exit_status, ident, parsed, proc, pc,
                   seen, cur_dir, file_groups, data, failed_configs, copied,
                   median_files_copied, summary, medians, result>>

TrendGroupsDone ==
    /\ proc = "trend" /\ pc = "group"
    /\ gi > Len(comparison_data)
    /\ pc' = "compute"
    /\ gi' = 1
    /\ UNCHANGED <<trendVars, exit_status, ident, parsed, proc, seen, cur_dir,
                   file_groups, data, failed_configs, copied,
                   median_files_copied, summary, medians, result>>

\* one iteration of "for config_key, data_points in config_groups.items()"
TrendCompute ==
    /\ proc = "trend" /\ pc = "compute"
    /\ gi <= Len(config_groups)
    /\ IF Len(config_groups[gi].points) < 2
       THEN UNCHANGED <<config_groups, trends>>
       ELSE /\ config_groups' =
                  [config_groups EXCEPT ![gi].points = SortByDatetime(@)]
            /\ \E residue \in {0 - 1, 0, 1} :
                  trends' = StoreTrend(trends, config_groups[gi].key,
                               SortByDatetime(config_groups[gi].points),
                               Throughputs(SortByDatetime(config_groups[gi].points)),
                               residue)
    /\ gi' = gi + 1
    /\ UNCHANGED <<comparison_data, passes, exit_status, ident, parsed, proc, pc,
                   seen, cur_dir, file_groups, data, failed_configs, copied,
                   median_files_copied, summary, medians, result>>

\* return trends
TrendReturn ==
    /\ proc = "trend" /\ pc = "compute"
    /\ gi > Len(config_groups)
    /\ pc' = "done"
    /\ result' = "trends"
    /\ UNCHANGED <<trendVars, exit_status, ident, parsed, proc, seen, cur_dir,
                   file_groups, gi, data, failed_configs, copied,
                   median_files_copied, summary, medians>>

\* the comparison_data the model hands to calculate_performance_trends
MaxRuns == 3        \* runs in a generated comparison_data

K_a == <<<<"a">>, "standalone", "light", 5, 0>>
K_a30 == <<<<"a">>, "standalone", "light", 5, 30>>   \* another duration
K_ac == <<<<"a">>, "cluster", "light", 5, 0>>        \* another mode

TrendValues == {0 - 20, 0, 20, 30}

RunOrders(n) ==
    {f \in [1..n -> 1..n] : \A i, j \in 1..n : i # j => f[i] # f[j]}

\* runs 1..n in chronological order, one row of K_a each
SingleKeyRuns(series) ==
    [i \in 1..Len(series) |-> RunData(i, <<Row(K_a, Num(series[i]))>>)]

\* the runs in the order they are supplied
Supplied(runs, order) == [i \in 1..Len(runs) |-> runs[order[i]]]

GeneratedRuns ==
    UNION {{Supplied(SingleKeyRuns(series), order) :
                series \in [1..n -> TrendValues], order \in RunOrders(n)} :
           n \in 0..MaxRuns}

\* chronological runs of one row of K_a with the given throughputs
Chronological(series) == SingleKeyRuns(series)

TrendCorpus == {
    Chronological(<<100, 150>>),
    Chronological(<<100, 105>>),
    Chronological(<<100, 95>>),
    Chronological(<<100, 100, 100>>),
    Chronological(<<9, 11, 9, 11>>),
    Chronological(<<3, 5, 3, 5>>),
    Chronological(<<10, 20, 20, 10>>),
    \* up from first to last, down along the fitted line
    Chronological(<<20, 30, 20, 21>>),
    \* a run without a usable ReqPerSec before two runs with one
    <<RunData(1, <<Row(K_a, NaN)>>), RunData(2, <<Row(K_a, Num(20))>>),
      RunData(3, <<Row(K_a, Num(30))>>)>>,
    <<RunData(1, <<Row(K_a, NaN)>>), RunData(2, <<Row(K_a, Num(20))>>)>>,
    \* the same configuration at two durations
    <<RunData(1, <<Row(K_a, Num(20))>>), RunData(2, <<Row(K_a30, Num(30))>>)>>,
    <<RunData(1, <<Row(K_a, Num(20)), Row(K_a30, Num(30))>>),
      RunData(2, <<Row(K_a, Num(21)), Row(K_a30, Num(19))>>)>>,
    \* a configuration seen in one run only, next to one seen in two
    <<RunData(1, <<Row(K_a, Num(20)), Row(K_ac, Num(20))>>),
      RunData(2, <<Row(K_a, Num(30))>>)>>
}

ComparisonInputs == GeneratedRuns \cup TrendCorpus

TrendInit ==
    /\ ident = <<>> /\ parsed = NotParsed
    /\ proc = "trend" /\ pc = "start"
    /\ PipeIdle
    /\ comparison_data \in ComparisonInputs
    /\ config_groups = <<>>
    /\ trends = <<>>
    /\ passes = <<>>

TrendNext ==
    \/ TrendStart \/ TrendGroupRun \/ TrendGroupsDone \/ TrendCompute
    \/ TrendReturn

SpecTrend == TrendInit /\ [][TrendNext]_vars

-----------------------------------------------------------------------------
(* Properties of the two grouping functions, checked under Spec.           *)

Groups == SeqToSet(file_groups)

Listed == SeqToSet(seen)

\* the paths of the files in a group
GroupPaths(g) == {g.files[i].filepath : i \in 1..Len(g.files)}

\* what parse_filename returns for the file at <<directory, name>>
ParsedAt(filepath) == ParsedNames[filepath[2]]

KeyFields(p) == <<p.client_name, p.mode, p.req_type, p.concurrency, p.duration>>

\* the ConfigurationKey derived from the name of the file at filepath
DerivedKey(filepath) == KeyFields(ParsedAt(filepath))

IsComplete(p) == p.concurrency # 0 /\ p.req_type # "unknown"

\* the rateLimitHits the result file of a run holds
RunHits(info) == DocAt(seen, info.filepath).rlh

AllRunsZero(g) == \A i \in 1..Len(g.files) : RunHits(g.files[i]) = Num(0)

Below(files, t) == Cardinality({i \in 1..Len(files) : files[i].throughput < t})

UpTo(files, t) == Cardinality({i \in 1..Len(files) : files[i].throughput <= t})

\* x is a run of files that stands at 0-based index k once files is sorted
\* by throughput ascending
AtSortedIndex(files, x, k) ==
    /\ \E i \in 1..Len(files) : files[i] = x
    /\ Below(files, x.throughput) <= k
    /\ k < UpTo(files, x.throughput)

\* the representatives selected for a group
RepIndices(g) == {i \in 1..Len(medians) : medians[i].config = g.key}

HasFloorMedian(g) ==
    /\ Cardinality(RepIndices(g)) = 1
    /\ \A i \in RepIndices(g) :
          AtSortedIndex(g.files, medians[i].file, Len(g.files) \div 2)

FlaggedFailed(g) ==
    \E i \in 1..Len(failed_configs) :
        failed_configs[i].config = g.key /\ failed_configs[i].reason # ""

\* C2: in extract_median_results, once the failed configurations are
\* detected, every group whose runs all have rateLimitHits 0 is in
\* failed_configs with a reason, whatever the throughputs of its runs.
AllZeroGroupsAreFlagged ==
    (proc = "emr" /\ pc \in {"extract", "done"}) =>
        \A g \in Groups : AllRunsZero(g) => FlaggedFailed(g)

\* a flagged group whose two runs differ in throughput
FlaggedGroupOfUnequalRuns ==
    /\ proc = "emr" /\ pc = "extract"
    /\ \E g \in Groups :
          /\ AllRunsZero(g) /\ FlaggedFailed(g)
          /\ \E i, j \in 1..Len(g.files) :
                g.files[i].throughput < g.files[j].throughput

\* C3: extract_median_results copies no median file for a group whose runs
\* all have rateLimitHits 0.
NoMedianFileForFailedGroup ==
    proc = "emr" =>
        \A g \in Groups :
            AllRunsZero(g) => \A i \in 1..Len(copied) : copied[i].config # g.key

\* the extraction is done and passed over a failed group of two runs
FailedGroupOfTwoPassedOver ==
    /\ proc = "emr" /\ pc = "done" /\ result = "output_dir"
    /\ \E g \in Groups :
          /\ AllRunsZero(g) /\ Len(g.files) >= 2 /\ FlaggedFailed(g)
          /\ \A i \in 1..Len(copied) : copied[i].config # g.key
          /\ \E i \in 1..Len(summary) : summary[i].config = g.key

RowKey(row) ==
    <<row.Client, row.Mode, row.RequestType, row.Concurrency, row.Duration>>

\* C4: the rows of process_single_directory hold no row for a group whose
\* runs all show zero rateLimitHits.
NoRowForAllZeroGroup ==
    proc = "psd" =>
        \A g \in Groups :
            AllRunsZero(g) => \A i \in 1..Len(data) : RowKey(data[i]) # g.key

\* the records the grouping loop kept
Retained == UNION {GroupPaths(g) : g \in Groups}

\* C5: the groups partition the retained records by ConfigurationKey: two
\* records are in the same group exactly when the keys derived from their
\* names are equal, no two groups share a key, and the retained records
\* with a group's key are exactly the members of that group.
GroupingPartitionsByKey ==
    /\ \A i, j \in 1..Len(file_groups) :
          i # j => file_groups[i].key # file_groups[j].key
    /\ \A g \in Groups : Cardinality(GroupPaths(g)) = Len(g.files)
    /\ \A g, h \in Groups :
          \A r \in GroupPaths(g), q \in GroupPaths(h) :
              (g = h) <=> (DerivedKey(r) = DerivedKey(q))
    /\ \A g \in Groups :
          GroupPaths(g) = {r \in Retained : DerivedKey(r) = g.key}

\* a group of two runs next to a group whose key differs in the mode only
GroupsApartByModeOnly ==
    \E g, h \in Groups :
        /\ Len(g.files) = 2
        /\ g.key[2] # h.key[2]
        /\ \A k \in {1, 3, 4, 5} : g.key[k] = h.key[k]

\* C6: no member of a group, in either function, has an incomplete
\* identifier (concurrency 0 or request type unknown).
NoIncompleteMember ==
    \A g \in Groups : \A r \in GroupPaths(g) : IsComplete(ParsedAt(r))

\* a listed JSON file with a usable throughput and an incomplete name, left
\* out of the groups a complete file went into
IncompleteFileLeftOut ==
    /\ Groups # {}
    /\ \E f \in Listed :
          /\ EndsWithJson(f.name)
          /\ ~IsComplete(ParsedNames[f.name])
          /\ get_throughput_from_json(f.doc) = [raised |-> FALSE, value |-> 2]
          /\ <<f.dir, f.name>> \notin Retained

PathOf(f) == <<f.dir, f.name>>

InGroupOfItsKey(f) ==
    \E g \in Groups : g.key = DerivedKey(PathOf(f)) /\ PathOf(f) \in GroupPaths(g)

\* a listed JSON file with a complete identifier whose throughput
\* get_throughput_from_json returns
HasThroughput(f) ==
    /\ EndsWithJson(f.name)
    /\ IsComplete(ParsedNames[f.name])
    /\ ~get_throughput_from_json(f.doc).raised

-----------------------------------------------------------------------------
(* Properties of parse_filename, checked under SpecParse.                  *)

\* a concurrency token of s: the digits s[i..j], not preceded by a digit and
\* directly followed by the letter c
IsConcurrencyToken(s, i, j) ==
    /\ 1 <= i /\ i <= j /\ j < Len(s)
    /\ \A k \in i..j : IsDigit(s[k])
    /\ s[j + 1] = "c"
    /\ (i = 1 \/ ~IsDigit(s[i - 1]))

Tokens(s) == {t \in (1..Len(s)) \X (1..Len(s)) : IsConcurrencyToken(s, t[1], t[2])}

TokenValue(s, t) == DigitsToInt(SubSeq(s, t[1], t[2]))

EveryTokenGives(s, concurrency) ==
    \A t \in Tokens(s) : concurrency = TokenValue(s, t)

FirstTokenGives(s, concurrency) ==
    \A t \in Tokens(s) :
        (/\ \A u \in Tokens(s) : t[1] <= u[1]
         /\ TokenValue(s, t) > 0)
            => concurrency = TokenValue(s, t)

TwoTokensFirstGiven(s, concurrency) ==
    \E t, u \in Tokens(s) :
        /\ t[1] < u[1]
        /\ TokenValue(s, t) # TokenValue(s, u)
        /\ TokenValue(s, t) > 0
        /\ concurrency = TokenValue(s, t)

Delimiters == {"_", ":", "-"}

Letters == {"a", "b", "c", "d", "e", "f", "g", "h", "i", "j", "k", "l", "m",
            "n", "o", "p", "q", "r", "s", "t", "u", "v", "w", "x", "y", "z"}

\* 'cluster' stands at i of s as a segment between delimiters or the ends
DelimitedAt(s, i) ==
    /\ MatchAt(s, i, S_cluster)
    /\ (i = 1 \/ s[i - 1] \in Delimiters)
    /\ (i + Len(S_cluster) > Len(s) \/ s[i + Len(S_cluster)] \in Delimiters)

DelimitedCluster(s) == \E i \in 1..Len(s) : DelimitedAt(s, i)

HasClusterSuffix(name) ==
    \/ Contains(name, <<"-">> \o S_cluster)
    \/ Contains(name, <<":">> \o S_cluster)

\* 'cluster' directly followed by a letter
EmbeddedCluster(name) ==
    \E i \in 1..Len(name) :
        /\ MatchAt(name, i, S_cluster)
        /\ i + Len(S_cluster) <= Len(name)
        /\ name[i + Len(S_cluster)] \in Letters

\* name is one or more of -cluster and :cluster and nothing else
OnlySuffixBlocks(name) ==
    /\ Len(name) > 0
    /\ Len(name) % (Len(S_cluster) + 1) = 0
    /\ \A k \in 0..((Len(name) \div (Len(S_cluster) + 1)) - 1) :
          /\ name[k * (Len(S_cluster) + 1) + 1] \in {"-", ":"}
          /\ MatchAt(name, k * (Len(S_cluster) + 1) + 2, S_cluster)

\* C9 as stated: for an identifier with 'cluster' as a delimited token the
\* mode is cluster and client_name holds no cluster suffix.
DelimitedClusterIsStripped ==
    (pc = "done" /\ DelimitedCluster(ident)) =>
        (parsed.mode = "cluster" /\ ~HasClusterSuffix(parsed.client_name))

\* C9 amended: for a file name (directory and '.json' removed) with 'cluster'
\* as a delimited token the mode is cluster, and client_name holds -cluster or
\* :cluster only when the implementation name is nothing but such suffixes or
\* holds 'cluster' directly followed by a letter.
DelimitedClusterIsStrippedWherePossible ==
    (pc = "done" /\ DelimitedCluster(BaseOf(ident))) =>
        /\ parsed.mode = "cluster"
        /\ HasClusterSuffix(parsed.client_name) =>
              \/ OnlySuffixBlocks(parsed.implementation)
              \/ EmbeddedCluster(parsed.implementation)

\* a cluster suffix of the implementation name is gone from client_name
SuffixGoneFromClientName ==
    /\ pc = "done" /\ DelimitedCluster(BaseOf(ident))
    /\ parsed.mode = "cluster"
    /\ HasClusterSuffix(parsed.implementation)
    /\ ~EmbeddedCluster(parsed.implementation)
    /\ ~HasClusterSuffix(parsed.client_name)
    /\ parsed.client_name # <<>>

\* 'cluster' occurs in s, and nowhere as a delimited segment or behind - or :
OnlyEmbedded(s) ==
    /\ Contains(s, S_cluster)
    /\ \A i \in 1..Len(s) :
          MatchAt(s, i, S_cluster) =>
              /\ ~DelimitedAt(s, i)
              /\ (i = 1 \/ s[i - 1] \notin {"-", ":"})

\* C10: for a file name in which 'cluster' occurs only embedded in a longer
\* token, parse_filename returns mode standalone.
EmbeddedClusterIsStandalone ==
    (pc = "done" /\ OnlyEmbedded(BaseOf(ident))) => parsed.mode = "standalone"

\* a digit of s is followed, after any spaces, by the letter
NumberBefore(s, letter) ==
    \E i, j \in 1..Len(s) :
        /\ i < j
        /\ IsDigit(s[i])
        /\ s[j] = letter
        /\ \A k \in (i + 1)..(j - 1) : s[k] = " "

DefaultsWhereNotRecovered(base, r) ==
    /\ r.mode \in {"standalone", "cluster"}
    /\ r.req_type \in {"light", "heavy", "unknown"}
    /\ r.concurrency \in Int /\ r.duration \in Int
    /\ r.implementation # <<>> /\ r.client_name # <<>>
    /\ ~Contains(Lower(base), S_cluster) => r.mode = "standalone"
    /\ (~Contains(base, S_light) /\ ~Contains(base, S_heavy)) => r.req_type = "unknown"
    /\ ~NumberBefore(base, "c") => r.concurrency = 0
    /\ ~NumberBefore(base, "s") => r.duration = 0
    /\ ParseImplementation(base) = <<>> =>
          (r.implementation = S_unknown_impl /\ r.client_name = S_unknown_impl)

\* C11: parse_filename returns a RunIdentifier for every identifier: the mode
\* is standalone, the type unknown, the concurrency 0 and the duration 0
\* wherever the name holds nothing to recover them from, and implementation
\* and client_name are both 'unknown_impl' when the derived name is empty.
ParseIsTotalWithDefaults ==
    pc = "done" => DefaultsWhereNotRecovered(BaseOf(ident), parsed)

\* a non-empty identifier from which nothing was recovered
NothingRecovered ==
    /\ pc = "done" /\ Len(ident) > 1
    /\ parsed = [implementation |-> S_unknown_impl, mode |-> "standalone",
                 req_type |-> "unknown", concurrency |-> 0, duration |-> 0,
                 client_name |-> S_unknown_impl]

-----------------------------------------------------------------------------
(* Properties of calculate_performance_trends, checked under SpecTrend.    *)

\* the rows of comparison_data, as <<index of the run, index of the row>>
RowIds ==
    {id \in (1..Len(comparison_data)) \X (1..4) :
        id[2] <= Len(comparison_data[id[1]].df)}

RowAt(id) == comparison_data[id[1]].df[id[2]]

WhenAt(id) == comparison_data[id[1]].datetime

\* the trend points of a key: its rows with a throughput
PointIds(key) ==
    {id \in RowIds : TrendKey(RowAt(id)) = key /\ RowAt(id).ReqPerSec.kind = "num"}

ValueAt(id) == RowAt(id).ReqPerSec.val

KeysSeen == {TrendKey(RowAt(id)) : id \in RowIds}

Earliest(key) == {id \in PointIds(key) : \A o \in PointIds(key) : WhenAt(id) <= WhenAt(o)}

Latest(key) == {id \in PointIds(key) : \A o \in PointIds(key) : WhenAt(id) >= WhenAt(o)}

Summaries(key) == {i \in 1..Len(trends) : trends[i].config = key}

\* the fraction change is (last - first) / first * 100
IsPercentChange(change, first, last) ==
    change.num * first = (last - first) * 100 * change.den

IsZeroChange(change) == change.num = 0

SummaryNeedsTwoPoints ==
    /\ \A i \in 1..Len(trends) : Cardinality(PointIds(trends[i].config)) >= 2
    /\ (proc = "trend" /\ pc = "done") =>
          /\ result = "trends"
          /\ \A key \in KeysSeen :
                Cardinality(PointIds(key)) < 2 => Summaries(key) = {}

\* a key with one point has no summary next to a key with two that has one
OnePointKeyLeftOut ==
    /\ proc = "trend" /\ pc = "done" /\ result = "trends"
    /\ \E key \in KeysSeen : Cardinality(PointIds(key)) = 1 /\ Summaries(key) = {}
    /\ \E key \in KeysSeen : Cardinality(PointIds(key)) = 2 /\ Summaries(key) # {}

\* row o comes before row id in the order the rows were supplied
SuppliedBefore(o, id) == o[1] < id[1] \/ (o[1] = id[1] /\ o[2] < id[2])

\* the number of points of the key that are chronologically before the point
Rank(key, id) ==
    Cardinality({o \in PointIds(key) :
        \/ WhenAt(o) < WhenAt(id)
        \/ WhenAt(o) = WhenAt(id) /\ SuppliedBefore(o, id)})

\* the throughputs of the key in chronological order
ChronoSeq(key) ==
    [r \in 1..Cardinality(PointIds(key)) |->
        ValueAt(CHOOSE id \in PointIds(key) : Rank(key, id) = r - 1)]

\* sum over i <= k of (x_i - mean(x)) * y_i, times 2, for x = 0, 1, ..., n-1:
\* the least-squares slope is this sum for k = n over a positive number
RECURSIVE CentredSum(_, _)
CentredSum(ys, k) ==
    IF k = 0 THEN 0
    ELSE (2 * (k - 1) - (Len(ys) - 1)) * ys[k] + CentredSum(ys, k - 1)

DirectionOfExactSlope(ys) ==
    IF CentredSum(ys, Len(ys)) > 0 THEN "improving"
    ELSE IF CentredSum(ys, Len(ys)) < 0 THEN "declining" ELSE "stable"

\* C14: with at least 3 trend points the direction is the sign of the
\* least-squares slope of throughput against the point index: improving if
\* > 0, declining if < 0, stable if 0 (as for throughputs 100, 100, 100).
SlopeSignDecidesDirection ==
    (proc = "trend" /\ pc = "done") =>
        \A key \in KeysSeen :
            Cardinality(PointIds(key)) >= 3 =>
                \A i \in Summaries(key) :
                    trends[i].trend_direction =
                        DirectionOfExactSlope(ChronoSeq(key))

\* the summary's change is above / below the percentage
ChangeAbove(change, percent) == change.num > percent * change.den

ChangeBelow(change, percent) == change.num < percent * change.den

DirectionFromChange(change) ==
    IF ChangeAbove(change, 5) THEN "improving"
    ELSE IF ChangeBelow(change, 0 - 5) THEN "declining" ELSE "stable"

\* the direction found for runs 1 and 2 of throughputs first and last
TwoPointGives(first, last, change, direction) ==
    (/\ proc = "trend" /\ pc = "done"
     /\ comparison_data = Chronological(<<first, last>>)) =>
        /\ Len(trends) = 1
        /\ trends[1].throughput_change_percent = change
        /\ trends[1].trend_direction = direction

\* C15: with exactly 2 trend points the direction comes from the change
\* alone: improving above +5, declining below -5, stable otherwise, +5 and
\* -5 included; 100 then 150 gives a change of 50 and improving.
TwoPointDirectionFromChange ==
    /\ (proc = "trend" /\ pc = "done") =>
          \A key \in KeysSeen :
              Cardinality(PointIds(key)) = 2 =>
                  \A i \in Summaries(key) :
                      trends[i].trend_direction =
                          DirectionFromChange(trends[i].throughput_change_percent)
    /\ TwoPointGives(100, 150, [num |-> 5000, den |-> 100], "improving")
    /\ TwoPointGives(100, 105, [num |-> 500, den |-> 100], "stable")
    /\ TwoPointGives(100, 95, [num |-> 0 - 500, den |-> 100], "stable")
    /\ TwoPointGives(20, 30, [num |-> 1000, den |-> 20], "improving")

\* a change of exactly +5 reported as stable
BoundaryChangeIsStable ==
    /\ proc = "trend" /\ pc = "done"
    /\ comparison_data = Chronological(<<100, 105>>)
    /\ Len(trends) = 1
    /\ trends[1].trend_direction = "stable"

\* sum over the points of the key of (n * y - S)^2, n their number, S their sum
RECURSIVE SumOfValues(_)
SumOfValues(ids) ==
    IF ids = {} THEN 0
    ELSE ValueAt(CHOOSE id \in ids : TRUE)
            + SumOfValues(ids \ {CHOOSE id \in ids : TRUE})

RECURSIVE SquaredDeviations(_, _, _)
SquaredDeviations(ids, n, total) ==
    IF ids = {} THEN 0
    ELSE (n * ValueAt(CHOOSE id \in ids : TRUE) - total)
            * (n * ValueAt(CHOOSE id \in ids : TRUE) - total)
         + SquaredDeviations(ids \ {CHOOSE id \in ids : TRUE}, n, total)

\* stddev / mean * 100 < limit for the n points of sum total # 0: the
\* population variance is SquaredDeviations / n^3 and the mean is total / n
CvUnder(ids, n, total, limit) ==
    IF total < 0 THEN TRUE
    ELSE 10000 * SquaredDeviations(ids, n, total) < limit * limit * n * total * total

StabilityOfCv(ids) ==
    IF CvUnder(ids, Cardinality(ids), SumOfValues(ids), 10) THEN "stable"
    ELSE IF CvUnder(ids, Cardinality(ids), SumOfValues(ids), 25) THEN "variable"
    ELSE "unstable"

\* C16: with at least 3 points stability is stable for cv < 10, variable for
\* 10 <= cv < 25 and unstable for cv >= 25, cv being stddev / mean * 100
\* (defined where the mean is not 0); with exactly 2 points it is
\* insufficient_data.
StabilityFromCv ==
    (proc = "trend" /\ pc = "done") =>
        \A key \in KeysSeen : \A i \in Summaries(key) :
            /\ Cardinality(PointIds(key)) = 2 =>
                  trends[i].stability = "insufficient_data"
            /\ (Cardinality(PointIds(key)) >= 3 /\ SumOfValues(PointIds(key)) # 0) =>
                  trends[i].stability = StabilityOfCv(PointIds(key))

\* throughputs 9, 11, 9, 11 have a cv of exactly 10 and are variable
CvOfTenIsVariable ==
    /\ proc = "trend" /\ pc = "done"
    /\ comparison_data = Chronological(<<9, 11, 9, 11>>)
    /\ Len(trends) = 1
    /\ trends[1].stability = "variable"

\* C17: the points of one TrendSummary come from results of one full
\* configuration key (client name, mode, workload type, concurrency,
\* duration): results that differ in a component, the duration included,
\* never contribute to the same summary.
SummaryOfOneFullKey ==
    \A g \in 1..Len(config_groups) :
        Summaries(config_groups[g].key) # {} =>
            \A p, q \in 1..Len(config_groups[g].points) :
                config_groups[g].points[p].duration
                    = config_groups[g].points[q].duration

-----------------------------------------------------------------------------
(* Properties of the metric extraction, checked under Spec.                *)

\* the listed files get_throughput_from_json is applied to
Extracted(f) == EndsWithJson(f.name) /\ IsComplete(ParsedNames[f.name])

Returned(value) == [raised |-> FALSE, value |-> value]

Absent(v) == v.kind \in {"nosection", "noavg"}

\* C18: get_throughput_from_json returns throughput.average when it is
\* present, otherwise requests.average when that is present, and 0 when
\* both are absent.
PrimaryThenSecondaryThenZero ==
    \A f \in Listed :
        Extracted(f) =>
            /\ f.doc.thr.kind = "num" =>
                  get_throughput_from_json(f.doc) = Returned(f.doc.thr.val)
            /\ (Absent(f.doc.thr) /\ f.doc.req.kind = "num") =>
                  get_throughput_from_json(f.doc) = Returned(f.doc.req.val)
            /\ (Absent(f.doc.thr) /\ Absent(f.doc.req)) =>
                  get_throughput_from_json(f.doc) = Returned(0)

\* C19: metric extraction never raises: whatever the metric fields of a
\* record are (absent, null, non-numeric, a section that is no mapping),
\* get_throughput_from_json returns a number.
ExtractionNeverRaises ==
    \A f \in Listed :
        Extracted(f) => ~get_throughput_from_json(f.doc).raised

-----------------------------------------------------------------------------
(* Properties of main in single-directory mode, checked under Spec.        *)

NoInputRecords == \A f \in Listed : ~EndsWithJson(f.name)

NoGroupRemains == file_groups = <<>>

\* C20: only global emptiness is fatal: main exits with an error, without
\* a report, when the pass has no input records or no group remains after
\* filtering, and produces a result in every other case.
OnlyEmptinessIsFatal ==
    (proc = "psd" /\ exit_status # "none") =>
        /\ (NoInputRecords \/ NoGroupRemains) =>
              result = "None" /\ exit_status = "exit(1)"
        /\ ~(NoInputRecords \/ NoGroupRemains) =>
              result = "DataFrame" /\ exit_status = "report"

-----------------------------------------------------------------------------
(* Properties of the batch as a whole, checked under Spec.                 *)

\* the record is one the grouping loop of the running function keeps
Kept(f) == IF proc = "psd" THEN PsdKeeps(f) ELSE EmrKeeps(f)

HasRow(g) == \E i \in 1..Len(data) : RowKey(data[i]) = g.key

\* the row of the group can be built from its representative
RowBuilds(g) ==
    \A i \in RepIndices(g) : ~PsdRowRaises(DocAt(seen, medians[i].file.filepath))

\* C21: a problem with one record or one group never aborts the batch:
\* every record the function keeps is grouped whatever the other records
\* are, and once the function is done every group that is not passed over
\* has its representative (and, in process_single_directory, its row when
\* the row can be built), whatever happened to the other groups.
OneProblemNeverAborts ==
    /\ proc \in {"psd", "emr"} =>
          \A f \in Listed : Kept(f) => InGroupOfItsKey(f)
    /\ (proc = "emr" /\ pc = "done" /\ Listed # {}) => result = "output_dir"
    /\ (proc = "psd" /\ pc = "done") =>
          \A g \in Groups : RepIndices(g) # {} /\ (RowBuilds(g) => HasRow(g))
    /\ (proc = "emr" /\ pc = "done") =>
          \A g \in Groups :
              (Len(g.files) >= 2 /\ ~AllRunsZero(g)) => RepIndices(g) # {}

\* process_single_directory is done with a record that raised, a group whose
\* row could not be built and another group that has its row
RowNextToFailedRecordAndGroup ==
    /\ proc = "psd" /\ pc = "done" /\ result = "DataFrame"
    /\ \E f \in Listed : EndsWithJson(f.name) /\ get_throughput_from_json(f.doc).raised
    /\ \E g \in Groups : ~RowBuilds(g) /\ ~HasRow(g)
    /\ \E g \in Groups : RowBuilds(g) /\ HasRow(g)

\* the representative selected for the group is its run x
RepresentedBy(g, x) == \E i \in RepIndices(g) : medians[i].file = x

\* C22: a group of exactly one run is accepted, in both functions: once
\* the function is done its representative is that run (groups whose runs
\* all show zero rateLimitHits, which C3 excludes, set aside).
SingleRunGroupAccepted ==
    (proc \in {"psd", "emr"} /\ pc = "done") =>
        \A g \in Groups :
            (Len(g.files) = 1 /\ (proc = "emr" => ~AllRunsZero(g)))
                => RepresentedBy(g, g.files[1])

\* the place of a run in the order the files were listed
ListedAt(x) == CHOOSE i \in 1..Len(seen) : PathOf(seen[i]) = x.filepath

\* the number of runs of the group before x when the group is ordered by
\* throughput and, among equal throughputs, by the order of listing
StableRank(g, x) ==
    Cardinality({i \in 1..Len(g.files) :
        \/ g.files[i].throughput < x.throughput
        \/ /\ g.files[i].throughput = x.throughput
           /\ ListedAt(g.files[i]) < ListedAt(x)})

\* C23: the runs of a group are held in the order they were listed until
\* the group is sorted, the sort keeps runs of equal throughput in that
\* order, and the representative is the run at index floor(n/2) of the
\* order by throughput and then by listing.
TiesFollowInputOrder ==
    /\ (proc \in {"psd", "emr"} /\ pc = "list") =>
          \A g \in Groups : \A i, j \in 1..Len(g.files) :
              i < j => ListedAt(g.files[i]) < ListedAt(g.files[j])
    /\ \A g \in Groups : \A i, j \in 1..Len(g.files) :
          (i < j /\ g.files[i].throughput = g.files[j].throughput)
              => ListedAt(g.files[i]) < ListedAt(g.files[j])
    /\ \A g \in Groups : \A k \in RepIndices(g) :
          StableRank(g, medians[k].file) = Len(g.files) \div 2

\* of three runs of which the first two listed tie at the top, the first
\* listed is the representative
TieBrokenByListing ==
    \E g \in Groups :
        /\ Len(g.files) = 3
        /\ \E x, y, z \in SeqToSet(g.files) :
              /\ z.throughput < x.throughput
              /\ x.throughput = y.throughput
              /\ ListedAt(x) < ListedAt(y) /\ ListedAt(y) < ListedAt(z)
              /\ RepresentedBy(g, x)

\* the listed records the grouping loop left out
Skipped == {f \in Listed : EndsWithJson(f.name) /\ PathOf(f) \notin Retained}

\* C24: every non-fatal anomaly is accumulated into a diagnostics list that
\* is returned alongside the primary result, so that the caller can obtain
\* the number of skipped records.
DiagnosticsAreReturned ==
    (proc \in {"psd", "emr"} /\ pc = "done") =>
        /\ "diagnostics" \in DOMAIN ReturnValue
        /\ Len(ReturnValue.diagnostics) >= Cardinality(Skipped)

-----------------------------------------------------------------------------
(* Further properties of parse_filename, checked under SpecParse.          *)

\* the word stands in s as a token: no letter directly before or after it
WordAsToken(s, word) ==
    \E i \in 1..Len(s) :
        /\ MatchAt(s, i, word)
        /\ (i = 1 \/ s[i - 1] \notin Letters)
        /\ (i + Len(word) > Len(s) \/ s[i + Len(word)] \notin Letters)

\* C25: the workload type is light or heavy only by a match of that word at
\* token boundaries: an identifier that holds neither word as a token yields
\* unknown.
TypeWordOnlyAsToken ==
    (proc = "parse" /\ pc = "done") =>
        /\ parsed.req_type = "light" => WordAsToken(BaseOf(ident), S_light)
        /\ parsed.req_type = "heavy" => WordAsToken(BaseOf(ident), S_heavy)
        /\ (/\ ~WordAsToken(BaseOf(ident), S_light)
            /\ ~WordAsToken(BaseOf(ident), S_heavy)) => parsed.req_type = "unknown"

-----------------------------------------------------------------------------
(* Further properties of process_single_directory, checked under Spec.     *)

\* C26: in every row of process_single_directory ReqPerSec is the
\* throughput under which the representative was sorted and selected, the
\* value get_throughput_from_json returns for the same file.
RowThroughputIsSortThroughput ==
    proc = "psd" =>
        \A i \in 1..Len(data) :
            /\ \E k \in 1..Len(medians) :
                  /\ medians[k].config = RowKey(data[i])
                  /\ medians[k].file.filepath = data[i].source
                  /\ medians[k].file.throughput = data[i].ReqPerSec
            /\ data[i].ReqPerSec
                  = get_throughput_from_json(DocAt(seen, data[i].source)).value

-----------------------------------------------------------------------------
(* Further properties of calculate_performance_trends, checked under       *)
(* SpecTrend.                                                              *)

DirectionAgrees(trend) ==
    /\ trend.trend_direction = "improving"
          => trend.throughput_change_percent.num >= 0
    /\ trend.trend_direction = "declining"
          => trend.throughput_change_percent.num <= 0

\* C27 as stated: in every summary the direction agrees with the sign of
\* the change (improving: change >= 0, declining: change <= 0), for any
\* number of points >= 2.
DirectionAgreesWithChange ==
    \A i \in 1..Len(trends) : DirectionAgrees(trends[i])

\* C27 amended: the direction agrees with the sign of the change in every
\* summary computed from 2 or 3 throughput values.
DirectionAgreesUpToThreePoints ==
    \A i \in 1..Len(trends) :
        Cardinality(PointIds(trends[i].config)) <= 3 => DirectionAgrees(trends[i])

\* a declining summary of three points with a negative change
DecliningOverThreePoints ==
    \E i \in 1..Len(trends) :
        /\ Cardinality(PointIds(trends[i].config)) = 3
        /\ trends[i].trend_direction = "declining"
        /\ trends[i].throughput_change_percent.num < 0

\* C28: in every summary data_points is the number of throughput values
\* the summary was computed from, so that a summary with data_points >= 3
\* never has stability insufficient_data and one with data_points = 2
\* always has it.
DataPointsCountThroughputs ==
    \A i \in 1..Len(trends) :
        /\ trends[i].data_points = Cardinality(PointIds(trends[i].config))
        /\ trends[i].data_points >= 3 => trends[i].stability # "insufficient_data"
        /\ trends[i].data_points = 2 => trends[i].stability = "insufficient_data"

-----------------------------------------------------------------------------
(* Further properties of extract_median_results, checked under Spec.       *)

SummaryConfigs == {summary[i].config : i \in 1..Len(summary)}

CopiedConfigs == {copied[i].config : i \in 1..Len(copied)}

\* C29: after extract_median_results the configurations listed under
\* 'Configurations with median results' are exactly those whose median file
\* was copied to the output directory, once each, and as many as the
\* 'Median Files Extracted' count.
SummaryListsTheExtracted ==
    (proc = "emr" /\ pc = "done" /\ result = "output_dir") =>
        /\ SummaryConfigs = CopiedConfigs
        /\ Len(summary) = Cardinality(SummaryConfigs)
        /\ Len(summary) = median_files_copied

-----------------------------------------------------------------------------
(* Properties of main in comparison mode, checked under Spec.              *)

\* the run directories for which process_single_directory returned data
ValidPasses == {i \in 1..Len(passes) : passes[i] = "DataFrame"}

\* C30: in comparison mode each run directory is processed without
\* raising: a pass with valid data contributes one entry to the comparison
\* data, a pass without is skipped, and the trend calculation is reached
\* whenever at least 2 passes have valid data.
ComparisonReachesTrends ==
    (proc = "compare" /\ pc = "done") =>
        /\ exit_status # "AttributeError"
        /\ Len(passes) >= 2 => Len(comparison_data) = Cardinality(ValidPasses)
        /\ Cardinality(ValidPasses) >= 2 => exit_status = "trends"

====
